---- MODULE Spec2Model ----
(***************************************************************************)
(* Model of src/main.py: class App, a Tk dashboard with four               *)
(* self-rescheduling update callbacks (update_video, update_memory_chart,  *)
(* update_cpu_load, update_gpu_load) and three teardown paths (cleanup,    *)
(* _safe_cleanup, __del__).                                                *)
(*                                                                         *)
(* The App object, the camera (cv2.VideoCapture), the Tk host (window,     *)
(* mainloop, Tcl timer queue) and the widgets are the state.  The          *)
(* collaborators behave as the libraries do:                               *)
(*   - `after`, `after cancel`, `after info` are Tcl core commands: they   *)
(*     work whether or not the window exists; cancelling an id that has    *)
(*     fired or was cancelled is a no-op;                                  *)
(*   - root.destroy(), winfo_* and every widget command raise TclError     *)
(*     once the application has been destroyed; root.quit() never raises;  *)
(*   - the mainloop delivers timers only while the window exists and       *)
(*     quit() has not been called;                                         *)
(*   - cap.read() returns ret = False on a failed read, and on every read  *)
(*     once the device is gone; cap.isOpened() is true from a successful   *)
(*     open until release().                                               *)
(*                                                                         *)
(* Three specifications share the state and the operations:                *)
(*   Spec           the program as Tk runs it: every callback and every    *)
(*                  teardown call runs to completion, one at a time;       *)
(*   SpecFaults     Spec, with one collaborator call of a teardown raising;*)
(*   SpecMidFiring  a teardown may be called while a callback is in        *)
(*                  progress, at either of its two tests of self.running.  *)
(* Two more take a computation of a callback alone, over a range of        *)
(* operands:                                                               *)
(*   SpecTier       the colour update_cpu_load gives the CPU bar;          *)
(*   SpecResize     the size update_video resizes a frame to.              *)
(***************************************************************************)
EXTENDS Integers, Sequences, FiniteSets, TLC

\* Bounds of the exploration.
MaxFirings == 3
MaxShutdownCalls == 2
MaxPercent == 100        \* CPU load percentages 0..MaxPercent
MaxWindowWidth == 700    \* winfo_width() of the video frame, from -BelowZero
MaxWindowHeight == 520   \* winfo_height() of the video frame, from -BelowZero
BelowZero == 2

\* Numbers of the program.
MinWidth == 320          \* max(320, window_width - 4)
MinHeight == 240         \* max(240, window_height - 4)
Padding == 4
HighLoad == 80           \* if cpu_percent > 80
MediumLoad == 60         \* elif cpu_percent > 60

Tasks == {"video", "memory", "cpu", "gpu"}

\* The method that is the callback of each task.
Method(t) ==
  CASE t = "video"  -> "update_video"
    [] t = "memory" -> "update_memory_chart"
    [] t = "cpu"    -> "update_cpu_load"
    [] t = "gpu"    -> "update_gpu_load"

Updates == {Method(t) : t \in Tasks}

\* What one firing can be handed by its data source.
VideoInputs  == {"ok", "fail", "closed"}   \* cap.read(): frame, ret False, device gone
MemoryInputs == {"ok", "raise"}            \* psutil.virtual_memory() / ax.pie()
CpuInputs    == {"ok", "raise"}            \* psutil.cpu_percent() / cpu_freq()
GpuInputs    == {"ok", "absent", "raise"}  \* GPUtil.getGPUs(): list, [], exception

Inputs(t) ==
  CASE t = "video"  -> VideoInputs
    [] t = "memory" -> MemoryInputs
    [] t = "cpu"    -> CpuInputs
    [] t = "gpu"    -> GpuInputs

\* A step of cleanup() whose collaborator call can be made to fail.
\* The order in which cleanup() and _stop_all_tasks() cancel the stored ids.
CancelOrder == <<"video", "memory", "cpu", "gpu">>

\* The fault "root.after_cancel raises when called with task t's id".
CancelFault(t) ==
  CASE t = "video"  -> "cancel_video"
    [] t = "memory" -> "cancel_memory"
    [] t = "cpu"    -> "cancel_cpu"
    [] t = "gpu"    -> "cancel_gpu"

CancelFaults == {CancelFault(t) : t \in Tasks}

Faults == {"none", "release", "close", "sweep", "quit", "destroy"} \cup CancelFaults

\* How the window calls of the constructor's try block go: all succeed, one
\* of those before `self.running = True` raises TclError (title, geometry,
\* grid_*), or root.protocol, the one after it, does.
WindowInputs == {"ok", "raise_early", "raise_late"}

None == 0   \* a task attribute holding None; a handle k > 0 is that task's k-th timer

VARIABLES
  app,      \* the App object: phase of its life, running, the four *_task attributes, fig
  camera,   \* self.cap and the device behind it
  tk,       \* the Tk host: window, mainloop, Tcl timer queue
  display,  \* what the widgets show, and how many writes they received
  obs,      \* the last operation, its input and how it ended; call counters
  pc,       \* where each task's callback is: idle, dispatched, rendered
  calc      \* a computation of a callback taken alone: its operands and result

vars == <<app, camera, tk, display, obs, pc, calc>>

World == [app |-> app, camera |-> camera, tk |-> tk, display |-> display,
          obs |-> obs, pc |-> pc]

Commit(w) ==
  /\ app' = w.app
  /\ camera' = w.camera
  /\ tk' = w.tk
  /\ display' = w.display
  /\ obs' = w.obs
  /\ pc' = w.pc
  /\ calc' = calc

----------------------------------------------------------------------------
\* The state before App(root) is called.

Boot ==
  /\ app = [phase |-> "new", running |-> FALSE,
            task |-> [t \in Tasks |-> None], fig |-> "none"]
  /\ camera = [cap |-> "none", gone |-> FALSE, releases |-> 0]
  /\ tk = [window |-> "alive", quit |-> FALSE, timers |-> {},
           gen |-> [t \in Tasks |-> 0]]
  /\ display = [image |-> "blank", chart |-> "blank",
                cpuLabel |-> "CPU Load: 0%", cpuBar |-> "0",
                gpuLabel |-> "GPU Load: N/A", gpuBar |-> "0",
                writes |-> 0, imageWrites |-> 0]
  /\ obs = [lastOp |-> "none", lastIn |-> "none", outcome |-> "none",
            steps |-> <<>>, cleanupCalls |-> 0, safeCalls |-> 0, fired |-> 0]
  /\ pc = [t \in Tasks |-> "idle"]

Init == Boot /\ calc = [of |-> "nothing"]

----------------------------------------------------------------------------
\* Collaborators.

WindowAlive(w) == w.tk.window = "alive"

\* cap.isOpened()
isOpened(w) == w.camera.cap = "open"

\* The pending timer registrations whose callback is task t's method.
Pending(w, t) == {h \in w.tk.timers : h[1] = t}

\* root.after(ms, callback): a fresh timer in the Tcl queue; its id is returned.
after(w, t) ==
  LET k == w.tk.gen[t] + 1
  IN [w EXCEPT !.tk.gen[t] = k, !.tk.timers = @ \cup {<<t, k>>}]

\* One widget command (configure, ['value'] =, canvas.draw): counted as a write
\* received by the display surface.
Write(w) == [w EXCEPT !.display.writes = @ + 1]

Ended(w, how) == [w EXCEPT !.obs.outcome = how]

----------------------------------------------------------------------------
\* The four callbacks.  Each is modelled in two parts, split where the source
\* tests self.running for the second time: the part that samples and renders
\* (it ends "cont" when control reaches the rescheduling test, "returned_early"
\* at the first `return`, "raised" when an exception leaves the method), and
\* the final `if self.running: self.X_task = self.root.after(...)`.

\* Variant: the rescheduling test is dropped.
Reschedule_Unconditional(w, t) ==
  LET w1 == after(w, t)
  IN Ended([w1 EXCEPT !.app.task[t] = w1.tk.gen[t]], "rescheduled")

\* Variant: every method stores its timer id in self.video_task.
Reschedule_IntoVideoTask(w, t) ==
  IF w.app.running
    THEN LET w1 == after(w, t)
         IN Ended([w1 EXCEPT !.app.task["video"] = w1.tk.gen[t]], "rescheduled")
    ELSE Ended(w, "not_rescheduled")

\* `if self.running: self.<t>_task = self.root.after(ms, self.update_<t>)`
Reschedule(w, t) ==
  IF w.app.running
    THEN LET w1 == after(w, t)
         IN Ended([w1 EXCEPT !.app.task[t] = w1.tk.gen[t]], "rescheduled")
    ELSE Ended(w, "not_rescheduled")

\* update_video, lines 150-182: read a frame; if ret, resize and show it.
update_video_sample(w, in) ==
  LET gone == w.camera.gone \/ in = "closed"
      ret  == isOpened(w) /\ ~gone /\ in = "ok"
      w1   == [w EXCEPT !.camera.gone = gone]
  IN IF ~ret THEN Ended(w1, "cont")
     ELSE IF ~WindowAlive(w1) THEN Ended(w1, "raised")  \* winfo_width()
     ELSE Ended([Write(w1) EXCEPT !.display.image = "frame",
                                  !.display.imageWrites = @ + 1], "cont")

\* `if not self.running: return`, then the body
update_video_render(w, in) ==
  IF ~w.app.running THEN Ended(w, "returned_early")
  ELSE update_video_sample(w, in)

\* update_memory_chart, lines 191-210: sample and redraw; no try/except.
update_memory_chart_sample(w, in) ==
  IF in = "raise" THEN Ended(w, "raised")
  ELSE IF ~WindowAlive(w) THEN Ended(Write(w), "raised")   \* canvas.draw()
  ELSE Ended([Write(w) EXCEPT !.display.chart = "pie"], "cont")

\* `if not self.running: return`, then the body
update_memory_chart_render(w, in) ==
  IF ~w.app.running THEN Ended(w, "returned_early")
  ELSE update_memory_chart_sample(w, in)

\* update_cpu_load, lines 219-241: the try/except around sample and render.
update_cpu_load_sample(w, in) ==
  IF in = "ok" /\ WindowAlive(w)
    THEN \* cpu_bar['value'], cpu_label.config, style.configure
         Ended([Write(Write(Write(w))) EXCEPT !.display.cpuBar = "value",
                                              !.display.cpuLabel = "CPU Load: value"],
               "cont")
  ELSE IF in = "ok"
    THEN \* cpu_bar['value'] raises; the handler's cpu_label.config raises again
         Ended(Write(Write(w)), "raised")
  ELSE IF WindowAlive(w)
    THEN Ended([Write(Write(w)) EXCEPT !.display.cpuLabel = "CPU Load: Error",
                                       !.display.cpuBar = "0"], "cont")
  ELSE Ended(Write(w), "raised")

\* Variant: the first test of self.running is dropped.
update_cpu_load_render_Unguarded(w, in) == update_cpu_load_sample(w, in)

\* `if not self.running: return`, then the body
update_cpu_load_render(w, in) ==
  IF ~w.app.running THEN Ended(w, "returned_early")
  ELSE update_cpu_load_sample(w, in)

\* Variant: gpus[0] is read without `if gpus:`, so an empty list ends in the
\* except block.
update_gpu_load_sample_Unchecked(w, in) ==
  IF in = "ok" /\ WindowAlive(w)
    THEN Ended([Write(Write(Write(w))) EXCEPT !.display.gpuBar = "value",
                                              !.display.gpuLabel = "GPU Load: value"],
               "cont")
  ELSE IF in = "ok"
    THEN Ended(Write(Write(w)), "raised")
  ELSE IF WindowAlive(w)
    THEN Ended([Write(Write(w)) EXCEPT !.display.gpuLabel = "GPU Load: Error",
                                       !.display.gpuBar = "0"], "cont")
  ELSE Ended(Write(w), "raised")

\* update_gpu_load, lines 252-282: the try/except around query and render.
update_gpu_load_sample(w, in) ==
  IF in = "ok" /\ WindowAlive(w)
    THEN Ended([Write(Write(Write(w))) EXCEPT !.display.gpuBar = "value",
                                              !.display.gpuLabel = "GPU Load: value"],
               "cont")
  ELSE IF in = "ok"
    THEN Ended(Write(Write(w)), "raised")
  ELSE IF in = "absent" /\ WindowAlive(w)
    THEN Ended([Write(Write(w)) EXCEPT !.display.gpuLabel = "GPU: Not detected",
                                       !.display.gpuBar = "0"], "cont")
  ELSE IF in = "absent"
    THEN \* gpu_label.config raises; the handler's gpu_label.config raises again
         Ended(Write(Write(w)), "raised")
  ELSE IF WindowAlive(w)
    THEN Ended([Write(Write(w)) EXCEPT !.display.gpuLabel = "GPU Load: Error",
                                       !.display.gpuBar = "0"], "cont")
  ELSE Ended(Write(w), "raised")

\* `if not self.running: return`, then the body
update_gpu_load_render(w, in) ==
  IF ~w.app.running THEN Ended(w, "returned_early")
  ELSE update_gpu_load_sample(w, in)

\* The whole methods: render, then the rescheduling test if control reaches it.
\* Variant: the next update is scheduled only after a successful read.
update_video_StopsOnFailedRead(w, in) ==
  LET b == update_video_render(w, in)
  IN IF b.obs.outcome = "cont" /\ in = "ok" THEN Reschedule(b, "video") ELSE b

update_video(w, in) ==
  LET b == update_video_render(w, in)
  IN IF b.obs.outcome = "cont" THEN Reschedule(b, "video") ELSE b

update_memory_chart(w, in) ==
  LET b == update_memory_chart_render(w, in)
  IN IF b.obs.outcome = "cont" THEN Reschedule(b, "memory") ELSE b

update_cpu_load(w, in) ==
  LET b == update_cpu_load_render(w, in)
  IN IF b.obs.outcome = "cont" THEN Reschedule(b, "cpu") ELSE b

update_gpu_load(w, in) ==
  LET b == update_gpu_load_render(w, in)
  IN IF b.obs.outcome = "cont" THEN Reschedule(b, "gpu") ELSE b

Render(w, t, in) ==
  CASE t = "video"  -> update_video_render(w, in)
    [] t = "memory" -> update_memory_chart_render(w, in)
    [] t = "cpu"    -> update_cpu_load_render(w, in)
    [] t = "gpu"    -> update_gpu_load_render(w, in)

Update(w, t, in) ==
  CASE t = "video"  -> update_video(w, in)
    [] t = "memory" -> update_memory_chart(w, in)
    [] t = "cpu"    -> update_cpu_load(w, in)
    [] t = "gpu"    -> update_gpu_load(w, in)

\* The inputs a firing can get now: a device that is gone stays gone.
InputsNow(w, t) ==
  IF t = "video" /\ w.camera.gone THEN {"closed"} ELSE Inputs(t)

----------------------------------------------------------------------------
\* App.__init__(root).  win: how the window calls of the try block go;
\* camOk: cv2.VideoCapture(0) opens; the other inputs are what the four first,
\* direct calls of the update methods are handed.

\* Variant: the camera is opened before the window is configured.
__init___CameraFirst(w, win, camOk, vin, min, cin, gin) ==
  LET c == [w EXCEPT !.camera.cap = IF camOk THEN "open" ELSE "unopened"]
  IN IF win # "ok"
       THEN Ended([c EXCEPT !.app.phase = "windowfailed", !.tk.window = "failed",
                            !.app.running = (win = "raise_late")],
                  "raised")
     ELSE
       LET w0 == [c EXCEPT !.app.running = TRUE, !.app.fig = "open"]
       IN IF ~camOk THEN Ended([w0 EXCEPT !.app.phase = "ready"], "ok")
          ELSE
            LET w1 == update_video(w0, vin)
                w2 == update_memory_chart(w1, min)
                w3 == update_cpu_load(w2, cin)
                w4 == update_gpu_load(w3, gin)
            IN IF w2.obs.outcome = "raised"
                 THEN [w2 EXCEPT !.app.phase = "startfailed"]
                 ELSE Ended([w4 EXCEPT !.app.phase = "ready"], "ok")

__init__(w, win, camOk, vin, min, cin, gin) ==
  IF win # "ok"
    THEN \* the except block re-raises; running was assigned only if the
         \* failing call is the one after line 50
         Ended([w EXCEPT !.app.phase = "windowfailed", !.tk.window = "failed",
                         !.app.running = (win = "raise_late")],
               "raised")
  ELSE
    LET w0 == [w EXCEPT !.app.running = TRUE, !.app.fig = "open",
                        !.camera.cap = IF camOk THEN "open" ELSE "unopened"]
    IN IF ~camOk THEN Ended([w0 EXCEPT !.app.phase = "ready"], "ok")
       ELSE
         LET w1 == update_video(w0, vin)
             w2 == update_memory_chart(w1, min)
             w3 == update_cpu_load(w2, cin)
             w4 == update_gpu_load(w3, gin)
         IN IF w2.obs.outcome = "raised"
              THEN [w2 EXCEPT !.app.phase = "startfailed"]
              ELSE Ended([w4 EXCEPT !.app.phase = "ready"], "ok")

Called(w, op, in) == [w EXCEPT !.obs.lastOp = op, !.obs.lastIn = in,
                               !.obs.steps = <<>>]

Construct ==
  /\ app.phase = "new"
  /\ \E win \in WindowInputs, camOk \in BOOLEAN, vin \in VideoInputs,
        min \in MemoryInputs, cin \in CpuInputs, gin \in GpuInputs :
       Commit(__init__(Called(World, "__init__", "none"), win, camOk, vin, min, cin, gin))

----------------------------------------------------------------------------
\* A timer firing.  The mainloop runs callbacks one at a time, each to
\* completion: the Tcl timer is taken off the queue and the method is called.

MainloopRuns(w) == w.app.phase = "ready" /\ WindowAlive(w) /\ ~w.tk.quit

Dequeue(w, h) == [w EXCEPT !.tk.timers = @ \ {h}, !.obs.fired = @ + 1]

Fire(t) ==
  /\ MainloopRuns(World)
  /\ obs.fired < MaxFirings
  /\ \E h \in Pending(World, t), in \in InputsNow(World, t) :
       Commit(Update(Called(Dequeue(World, h), Method(t), in), t, in))

----------------------------------------------------------------------------
\* Teardown.  Each step below is one statement group of cleanup(); `fault`
\* names the step whose collaborator call raises, once ("none": every
\* collaborator behaves as the libraries do).  A step that is reached and does not raise is
\* appended to obs.steps.

Raised(w) == w.obs.outcome = "raised"

Did(w, step) == [w EXCEPT !.obs.steps = Append(@, step)]

\* self.running = False
stop_loops(w) == Did([w EXCEPT !.app.running = FALSE], "stop")

\* `if self.X_task: self.root.after_cancel(self.X_task)` for the four tasks,
\* from the i-th of CancelOrder on: a call that raises ends the step, the ids
\* cancelled before it stay cancelled.
RECURSIVE cancel_from(_, _, _)
cancel_from(w, i, fault) ==
  IF i > Len(CancelOrder) THEN w
  ELSE LET t == CancelOrder[i]
       IN IF w.app.task[t] = None THEN cancel_from(w, i + 1, fault)
          ELSE IF fault = CancelFault(t) THEN Ended(w, "raised")
          ELSE cancel_from([w EXCEPT !.tk.timers = @ \ {<<t, w.app.task[t]>>}],
                           i + 1, fault)

\* The four cancellations of cleanup() (lines 314-321) and of
\* _stop_all_tasks(); no call is made when no attribute holds an id.
cancel_tasks(w, fault) ==
  LET stored == {t \in Tasks : w.app.task[t] # None}
      done   == cancel_from(w, 1, fault)
  IN IF stored = {} THEN w
     ELSE IF Raised(done) THEN done
     ELSE Did(done, "cancel")

\* `if self.cap and self.cap.isOpened(): self.cap.release()`
release_camera(w, fault) ==
  IF ~isOpened(w) THEN w
  ELSE IF fault = "release" THEN Ended(w, "raised")
  ELSE Did([w EXCEPT !.camera.cap = "released", !.camera.releases = @ + 1],
           "release")

\* plt.close(self.fig)
close_figure(w, fault) ==
  IF fault = "close" THEN Ended(w, "raised")
  ELSE Did([w EXCEPT !.app.fig = "closed"], "close")

\* `for task in self.root.tk.call('after', 'info'): self.root.after_cancel(task)`
sweep_timers(w, fault) ==
  IF fault = "sweep" THEN Ended(w, "raised")
  ELSE Did([w EXCEPT !.tk.timers = {}], "sweep")

\* self.root.quit()
quit(w, fault) ==
  IF fault = "quit" THEN Ended(w, "raised")
  ELSE Did([w EXCEPT !.tk.quit = TRUE], "quit")

\* self.root.destroy(): TclError when the application is already destroyed
destroy(w, fault) ==
  IF fault = "destroy" \/ ~WindowAlive(w) THEN Ended(w, "raised")
  ELSE Did([w EXCEPT !.tk.window = "destroyed"], "destroy")

\* Variant: the window is quit and destroyed before the camera and the figure
\* are released.
cleanup_try_WindowFirst(w, fault) ==
  LET s0 == Ended(stop_loops(w), "ok")
      s1 == cancel_tasks(s0, fault)
      s2 == IF Raised(s1) THEN s1 ELSE sweep_timers(s1, fault)
      s3 == IF Raised(s2) THEN s2 ELSE quit(s2, fault)
      s4 == IF Raised(s3) THEN s3 ELSE destroy(s3, fault)
      s5 == IF Raised(s4) THEN s4 ELSE release_camera(s4, fault)
  IN IF Raised(s5) THEN s5 ELSE close_figure(s5, fault)

\* The try block of cleanup(): the first step that raises ends it.
cleanup_try(w, fault) ==
  LET s0 == Ended(stop_loops(w), "ok")
      s1 == cancel_tasks(s0, fault)
      s2 == IF Raised(s1) THEN s1 ELSE release_camera(s1, fault)
      s3 == IF Raised(s2) THEN s2 ELSE close_figure(s2, fault)
      s4 == IF Raised(s3) THEN s3 ELSE sweep_timers(s3, fault)
      s5 == IF Raised(s4) THEN s4 ELSE quit(s4, fault)
  IN IF Raised(s5) THEN s5 ELSE destroy(s5, fault)

\* The except block of cleanup(): quit and destroy again, outside any handler.
\* The failing call has failed once, in the try block; here the collaborators
\* behave as the libraries do.
cleanup_except(w) ==
  LET e0 == Did(Ended(w, "handled"), "except")
      e1 == quit(e0, "none")
  IN IF Raised(e1) THEN e1 ELSE destroy(e1, "none")

\* Variant: the timers are left to the window's destruction.
cleanup_LeavesTimers(w, fault) ==
  LET s0 == Ended(stop_loops(w), "ok")
      s1 == release_camera(s0, fault)
      s2 == close_figure(s1, fault)
      s3 == quit(s2, fault)
  IN IF WindowAlive(s3) THEN destroy(s3, fault) ELSE s3

cleanup(w, fault) ==
  LET tried == cleanup_try(w, fault)
  IN IF Raised(tried) THEN cleanup_except(tried) ELSE tried

\* _safe_cleanup(): _stop_all_tasks(), then destroy if winfo_exists(); any
\* exception goes to _handle_cleanup_error, which logs it.
_safe_cleanup(w, fault) ==
  LET s0 == Ended(w, "ok")
      s1 == cancel_tasks(s0, fault)
      s2 == IF Raised(s1) THEN s1
            ELSE IF ~WindowAlive(s1) THEN Ended(s1, "raised")  \* winfo_exists()
            ELSE destroy(s1, fault)
  IN IF Raised(s2) THEN Did(Ended(s2, "handled"), "except") ELSE s2

\* __del__(): the destructor releases the camera if it is still open.
__del__(w) == [release_camera(Ended(w, "ok"), "none") EXCEPT !.app.phase = "collected"]

\* The caller holds the App only when the constructor returned.
Callable(w) == w.app.phase = "ready"

ShutdownCalls(w) == w.obs.cleanupCalls + w.obs.safeCalls

Idle(w) == \A t \in Tasks : w.pc[t] = "idle"

Cleanup ==
  /\ Callable(World)
  /\ ShutdownCalls(World) < MaxShutdownCalls
  /\ Commit(cleanup([Called(World, "cleanup", "none")
                       EXCEPT !.obs.cleanupCalls = @ + 1], "none"))

SafeCleanup ==
  /\ Callable(World)
  /\ ShutdownCalls(World) < MaxShutdownCalls
  /\ Commit(_safe_cleanup([Called(World, "_safe_cleanup", "none")
                            EXCEPT !.obs.safeCalls = @ + 1], "none"))

\* The object is collected once nothing runs it any more: the constructor
\* raised, or the mainloop has ended.
Del ==
  /\ app.phase \in {"ready", "windowfailed", "startfailed"}
  /\ ~MainloopRuns(World)
  /\ Idle(World)
  /\ Commit(__del__(Called(World, "__del__", "none")))

Next ==
  \/ Construct
  \/ \E t \in Tasks : Fire(t)
  \/ Cleanup
  \/ SafeCleanup
  \/ Del

Spec == Init /\ [][Next]_vars

----------------------------------------------------------------------------
\* The same program with one collaborator call of a teardown failing.

CleanupFault ==
  /\ Callable(World)
  /\ ShutdownCalls(World) < MaxShutdownCalls
  /\ \E f \in Faults :
       Commit(cleanup([Called(World, "cleanup", f)
                         EXCEPT !.obs.cleanupCalls = @ + 1], f))

SafeCleanupFault ==
  /\ Callable(World)
  /\ ShutdownCalls(World) < MaxShutdownCalls
  /\ \E f \in {"none", "destroy"} \cup CancelFaults :
       Commit(_safe_cleanup([Called(World, "_safe_cleanup", f)
                              EXCEPT !.obs.safeCalls = @ + 1], f))

NextFaults ==
  \/ Construct
  \/ \E t \in Tasks : Fire(t)
  \/ CleanupFault
  \/ SafeCleanupFault
  \/ Del

SpecFaults == Init /\ [][NextFaults]_vars

----------------------------------------------------------------------------
\* The same program with a teardown called while a callback is in progress:
\* between the mainloop taking the timer off the queue and the method's first
\* test of self.running, or between rendering and the second test.  One
\* callback is in progress at a time.

Dispatch(t) ==
  /\ MainloopRuns(World)
  /\ Idle(World)
  /\ obs.fired < MaxFirings
  /\ \E h \in Pending(World, t) :
       Commit([Dequeue(World, h) EXCEPT !.pc[t] = "dispatched"])

Begin(t) ==
  /\ pc[t] = "dispatched"
  /\ \E in \in InputsNow(World, t) :
       LET b == Render(Called(World, Method(t), in), t, in)
       IN Commit([b EXCEPT !.pc[t] = IF b.obs.outcome = "cont"
                                       THEN "rendered" ELSE "idle"])

End(t) ==
  /\ pc[t] = "rendered"
  /\ Commit([Reschedule([World EXCEPT !.obs.lastOp = Method(t)], t)
               EXCEPT !.pc[t] = "idle"])

NextMidFiring ==
  \/ Construct
  \/ \E t \in Tasks : Dispatch(t)
  \/ \E t \in Tasks : Begin(t)
  \/ \E t \in Tasks : End(t)
  \/ Cleanup
  \/ SafeCleanup
  \/ Del

SpecMidFiring == Init /\ [][NextMidFiring]_vars

----------------------------------------------------------------------------
\* The computations inside the callbacks, taken alone: the operands are drawn
\* in the initial state and one step applies the code to them.

\* Variant: the thresholds belong to the upper tier.
cpu_bar_background_Inclusive(cpu_percent) ==
  IF cpu_percent >= HighLoad THEN "#FF5252"
  ELSE IF cpu_percent >= MediumLoad THEN "#FFA726"
  ELSE "#2196F3"

\* update_cpu_load, lines 229-236: the colour of the CPU bar.
cpu_bar_background(cpu_percent) ==
  IF cpu_percent > HighLoad THEN "#FF5252"          \* Red
  ELSE IF cpu_percent > MediumLoad THEN "#FFA726"   \* Orange
  ELSE "#2196F3"                                    \* Blue

Max(a, b) == IF a >= b THEN a ELSE b

\* Variant: no minimum size.
target_size_Unclamped(window_width, window_height) ==
  LET target_width  == window_width - Padding
      target_height == window_height - Padding
  IN IF target_width * 3 > target_height * 4
       THEN <<(target_height * 4) \div 3, target_height>>
       ELSE <<target_width, (target_width * 3) \div 4>>

\* Variant: the height is scaled by the ratio instead of its inverse.
target_size_Multiplied(window_width, window_height) ==
  LET target_width  == Max(MinWidth, window_width - Padding)
      target_height == Max(MinHeight, window_height - Padding)
  IN IF target_width * 3 > target_height * 4
       THEN <<(target_height * 4) \div 3, target_height>>
       ELSE <<target_width, (target_width * 4) \div 3>>

\* update_video, lines 155-170: <<target_width, target_height>> handed to
\* cv2.resize.  aspect_ratio is 4/3; on the sizes explored here the float
\* comparison and the two int() truncations of the source give what the
\* integer arithmetic below gives (the operands are positive, so int() is
\* the floor).
target_size(window_width, window_height) ==
  LET target_width  == Max(MinWidth, window_width - Padding)
      target_height == Max(MinHeight, window_height - Padding)
  IN IF target_width * 3 > target_height * 4
       THEN <<(target_height * 4) \div 3, target_height>>
       ELSE <<target_width, (target_width * 3) \div 4>>

Untouched == UNCHANGED <<app, camera, tk, display, obs, pc>>

\* The colour update_cpu_load gives the bar for one reading of cpu_percent.
InitTier ==
  /\ Boot
  /\ \E p \in 0..MaxPercent :
       calc = [of |-> "cpu_bar_background", cpu_percent |-> p,
               done |-> FALSE, background |-> "unset"]

ColourBar ==
  /\ calc.of = "cpu_bar_background"
  /\ ~calc.done
  /\ calc' = [calc EXCEPT !.done = TRUE,
                          !.background = cpu_bar_background(calc.cpu_percent)]
  /\ Untouched

NextTier == ColourBar

SpecTier == InitTier /\ [][NextTier]_vars

\* The size update_video resizes a frame to for one size of the video frame.
InitResize ==
  /\ Boot
  /\ \E ww \in (0 - BelowZero)..MaxWindowWidth,
        wh \in (0 - BelowZero)..MaxWindowHeight :
       calc = [of |-> "target_size", window_width |-> ww, window_height |-> wh,
               done |-> FALSE, size |-> <<0, 0>>]

Resize ==
  /\ calc.of = "target_size"
  /\ ~calc.done
  /\ calc' = [calc EXCEPT !.done = TRUE,
                          !.size = target_size(calc.window_width, calc.window_height)]
  /\ Untouched

NextResize == Resize

SpecResize == InitResize /\ [][NextResize]_vars

----------------------------------------------------------------------------
\* Properties.

Range(q) == {q[i] : i \in 1..Len(q)}

TaskOf(m) == CHOOSE t \in Tasks : Method(t) = m

CameraOpened == camera.cap \in {"open", "released"}

\* C1: once a cleanup() call has finished, no callback firing issues a display
\* write: the write counters and everything the widgets show stay as they are,
\* however the firing interleaves with the call.
C1_NoWriteAfterCleanup ==
  [][obs.cleanupCalls > 0 => display' = display]_vars

\* A callback that the mainloop had already taken off the queue ran after
\* cleanup() and returned at its first test of self.running.
C1_Witness ==
  /\ obs.cleanupCalls > 0
  /\ obs.lastOp \in Updates
  /\ obs.outcome = "returned_early"

\* C2: once running is false it stays false, and from then on root.after is
\* never called again: no task gets a new timer registration, also not the
\* firing that was in progress when running became false.
C2_StopIsOneWay ==
  [][(app.phase = "ready" /\ ~app.running)
       => (~app'.running /\ tk'.gen = tk.gen /\ tk'.timers \subseteq tk.timers)]_vars

\* A firing that had rendered before cleanup() ran reached its rescheduling
\* test afterwards and did not reschedule.
C2_Witness ==
  /\ app.phase = "ready"
  /\ ~app.running
  /\ obs.lastOp \in Updates
  /\ obs.outcome = "not_rescheduled"

\* C3: every task has at most one pending timer registration, and while
\* running is false no timer registration is pending at all.
C3_AtMostOneHandle ==
  /\ \A t \in Tasks : Cardinality(Pending(World, t)) <= 1
  /\ ~app.running => tk.timers = {}

\* cleanup() has run on an App whose four tasks were scheduled.
C3_Witness ==
  /\ obs.lastOp = "cleanup"
  /\ ~app.running
  /\ \A t \in Tasks : app.task[t] # None
  /\ tk.timers = {}

\* C4 as stated: after a successful camera open, two or more invocations of
\* cleanup, _safe_cleanup and __del__ have called cap.release() exactly once.
Invocations ==
  obs.cleanupCalls + obs.safeCalls + (IF app.phase = "collected" THEN 1 ELSE 0)

C4_ReleasedExactlyOnce ==
  (CameraOpened /\ Invocations >= 2) => camera.releases = 1

\* C5 as stated: a second cleanup() returns normally and leaves the end state
\* of a single one: running false, no timer, camera released, window destroyed.
C5_SecondCleanupIsQuiet ==
  (obs.lastOp = "cleanup" /\ obs.cleanupCalls >= 2)
    => /\ obs.outcome # "raised"
       /\ ~app.running
       /\ tk.timers = {}
       /\ ~isOpened(World)
       /\ tk.window = "destroyed"

\* C6 as stated: no call of cleanup() or _safe_cleanup() lets an exception
\* escape to its caller.
C6_ShutdownNeverThrows ==
  obs.lastOp \in {"cleanup", "_safe_cleanup"} => obs.outcome # "raised"

\* C7 as stated: when one of the steps of cleanup() (cancel timers, release
\* camera, close chart figure, destroy window) raises, every later step has
\* still been carried out when the call ends: the camera is not left open, and
\* the later steps appear among the steps taken.
StepOrder == <<"cancel", "release", "close", "destroy">>

\* The step a failing call belongs to.
FaultStep(f) == IF f \in CancelFaults THEN "cancel" ELSE f

C7_LaterStepsStillRun ==
  (obs.lastOp = "cleanup" /\ "except" \in Range(obs.steps))
    => \A i, j \in 1..Len(StepOrder) :
         (StepOrder[i] = FaultStep(obs.lastIn) /\ i < j)
           => IF StepOrder[j] = "release" THEN ~isOpened(World)
              ELSE StepOrder[j] \in Range(obs.steps)

\* C8: while the mainloop runs, running is true and the device has not been
\* reported gone, the video task has its timer pending after every firing,
\* whether the read succeeded or failed.
C8_FailedReadKeepsVideo ==
  (MainloopRuns(World) /\ CameraOpened /\ app.running /\ ~camera.gone)
    => Pending(World, "video") = {<<"video", app.task["video"]>>}

\* The video callback has just had a failed read after at least one frame was
\* shown.
C8_Witness ==
  /\ MainloopRuns(World)
  /\ obs.lastOp = "update_video"
  /\ obs.lastIn = "fail"
  /\ display.imageWrites >= 1
  /\ Pending(World, "video") # {}

\* C9 as stated: after the firing at which the device reported closed, the
\* video task has no pending timer.
C9_ClosedCameraStopsVideo ==
  (obs.lastOp = "update_video" /\ obs.lastIn = "closed")
    => Pending(World, "video") = {}

\* C10 as stated: while running is true, a firing whose sample or render step
\* failed ends with its task rescheduled.
C10_FailedFiringReschedules ==
  (obs.lastOp \in Updates /\ app.running /\ obs.lastIn \in {"raise", "fail"})
    => Pending(World, TaskOf(obs.lastOp)) # {}

\* C11 as stated: a firing whose sample failed has written the degraded state
\* of its metric: the error label and a zero gauge for CPU and GPU, and for
\* the camera image and the memory chart something other than the last
\* successfully rendered frame or pie.
Degraded(t) ==
  CASE t = "video"  -> display.image # "frame"
    [] t = "memory" -> display.chart # "pie"
    [] t = "cpu"    -> display.cpuLabel = "CPU Load: Error" /\ display.cpuBar = "0"
    [] t = "gpu"    -> display.gpuLabel = "GPU Load: Error" /\ display.gpuBar = "0"

C11_FailureShowsDegraded ==
  (obs.lastOp \in Updates /\ obs.lastIn \in {"fail", "closed", "raise"})
    => Degraded(TaskOf(obs.lastOp))

\* C12 as stated: once the constructor has returned with the camera not
\* opened, and until a teardown runs, the video task has no timer and each
\* of the three telemetry tasks has one.
C12_TelemetryRunsWithoutCamera ==
  (app.phase = "ready" /\ camera.cap = "unopened" /\ ShutdownCalls(World) = 0)
    => /\ Pending(World, "video") = {}
       /\ \A t \in Tasks \ {"video"} : Pending(World, t) # {}

\* C13 as stated: the CPU bar is red exactly when cpu_percent >= 80, orange
\* exactly when 60 <= cpu_percent < 80 and blue exactly when cpu_percent < 60.
C13_TiersInclusive ==
  (calc.of = "cpu_bar_background" /\ calc.done)
    => /\ calc.background = "#FF5252" <=> calc.cpu_percent >= 80
       /\ calc.background = "#FFA726"
            <=> (60 <= calc.cpu_percent /\ calc.cpu_percent < 80)
       /\ calc.background = "#2196F3" <=> calc.cpu_percent < 60

\* C13, amended: the CPU bar is red exactly when cpu_percent > 80, orange
\* exactly when 60 < cpu_percent <= 80 and blue exactly when cpu_percent <= 60;
\* the readings 80 and 60 themselves fall in the lower tier.
C13_TiersExclusive ==
  (calc.of = "cpu_bar_background" /\ calc.done)
    => /\ calc.background = "#FF5252" <=> calc.cpu_percent > 80
       /\ calc.background = "#FFA726"
            <=> (60 < calc.cpu_percent /\ calc.cpu_percent <= 80)
       /\ calc.background = "#2196F3" <=> calc.cpu_percent <= 60

\* The bar has been coloured for a reading of exactly 80, and is orange.
C13_Witness ==
  /\ calc.of = "cpu_bar_background"
  /\ calc.done
  /\ calc.cpu_percent = 80
  /\ calc.background = "#FFA726"

\* C14: for every positive width and height of the video frame, the size
\* handed to the resize keeps 4:3 to within one pixel: the width is the floor
\* of 4/3 of the height, or the height is the floor of 3/4 of the width.
C14_KeepsAspectRatio ==
  (calc.of = "target_size" /\ calc.done
     /\ calc.window_width > 0 /\ calc.window_height > 0)
    => LET W == calc.size[1]
           H == calc.size[2]
       IN \/ (3 * W <= 4 * H /\ 4 * H < 3 * W + 3)
          \/ (4 * H <= 3 * W /\ 3 * W < 4 * H + 4)

\* A frame wider than 4:3 and larger than the minimum has had its width cut
\* down to the floor of 4/3 of its height, which is not a whole multiple.
C14_Witness ==
  /\ calc.of = "target_size"
  /\ calc.done
  /\ calc.window_height - 4 > 240
  /\ calc.size[2] = calc.window_height - 4
  /\ calc.size[1] < calc.window_width - 4
  /\ 3 * calc.size[1] < 4 * calc.size[2]

\* C15: a 0x0 video frame gives exactly 320x240, and whatever the size of the
\* frame, zero and negative included, the width handed to the resize is at
\* least 320 and the height at least 240.
C15_MinimumSize ==
  (calc.of = "target_size" /\ calc.done)
    => /\ calc.size[1] >= 320
       /\ calc.size[2] >= 240
       /\ (calc.window_width = 0 /\ calc.window_height = 0)
            => calc.size = <<320, 240>>

\* The size has been computed for a frame with a negative width.
C15_Witness ==
  /\ calc.of = "target_size"
  /\ calc.done
  /\ calc.window_width < 0
  /\ calc.window_height = 0
  /\ calc.size = <<320, 240>>

\* C16: a firing of update_gpu_load that found no GPU shows "GPU: Not
\* detected" and a zero bar, not the error label; one whose query raised
\* shows "GPU Load: Error" and a zero bar, not "Not detected"; and in both
\* cases, running being true, the GPU task has its next timer pending.
C16_AbsentIsNotError ==
  (obs.lastOp = "update_gpu_load" /\ obs.lastIn \in {"absent", "raise"})
    => /\ display.gpuBar = "0"
       /\ display.gpuLabel = IF obs.lastIn = "absent" THEN "GPU: Not detected"
                                                      ELSE "GPU Load: Error"
       /\ app.running => Pending(World, "gpu") = {<<"gpu", app.task["gpu"]>>}

\* A firing of update_gpu_load has just found the GPU list empty.
C16_Witness ==
  /\ obs.lastOp = "update_gpu_load"
  /\ obs.lastIn = "absent"
  /\ obs.outcome = "rescheduled"
  /\ display.gpuLabel = "GPU: Not detected"

\* C17: when the window calls of the constructor fail, the exception leaves
\* the constructor, no timer has been or is ever registered, no task attribute
\* holds a handle and the camera has not been opened.
C17_WindowFailureStartsNothing ==
  tk.window = "failed"
    => /\ obs.lastOp = "__init__" => obs.outcome = "raised"
       /\ tk.timers = {}
       /\ \A t \in Tasks : tk.gen[t] = 0 /\ app.task[t] = None
       /\ camera.cap = "none"
       /\ camera.releases = 0

\* The constructor has just raised out of its window set-up.
C17_Witness ==
  /\ app.phase = "windowfailed"
  /\ obs.lastOp = "__init__"
  /\ obs.outcome = "raised"

\* C18: a cleanup() call in which no step fails takes its steps in this
\* order: running false and the stored timers cancelled, then the camera
\* released (if and only if it was open), then the figure closed, then the
\* window quit and destroyed; at the end no timer is pending.
Rank(step) ==
  CASE step = "stop"    -> 1
    [] step = "cancel"  -> 2
    [] step = "release" -> 3
    [] step = "close"   -> 4
    [] step = "sweep"   -> 5
    [] step = "quit"    -> 6
    [] step = "destroy" -> 7
    [] OTHER            -> 0

C18_CleanupOrder ==
  [][(obs'.cleanupCalls # obs.cleanupCalls /\ obs'.outcome = "ok")
       => LET s == obs'.steps
          IN /\ \A i, j \in 1..Len(s) : i < j => Rank(s[i]) < Rank(s[j])
             /\ {"stop", "close", "quit", "destroy"} \subseteq Range(s)
             /\ "release" \in Range(s) <=> isOpened(World)
             /\ "cancel" \in Range(s) <=> (\E t \in Tasks : app.task[t] # None)
             /\ tk'.timers = {}
             /\ ~app'.running]_vars

\* cleanup() has run to its end on an App with an open camera and four
\* scheduled tasks, taking every step.
C18_Witness ==
  /\ obs.lastOp = "cleanup"
  /\ obs.outcome = "ok"
  /\ obs.steps = <<"stop", "cancel", "release", "close", "sweep", "quit", "destroy">>

\* C19 as stated: whenever the window has been destroyed by _safe_cleanup()
\* or cleanup() and the object has not been collected, a camera that was
\* opened has been released.
C19_DestroyedMeansReleased ==
  (tk.window = "destroyed" /\ app.phase = "ready" /\ CameraOpened)
    => camera.cap = "released"

\* C20: a firing of one task's callback leaves running as it was and, for each
\* of the other three tasks, leaves the stored handle, the pending timers and
\* the count of timers registered as they were.
C20_FiringTouchesOwnHandleOnly ==
  [][obs'.fired # obs.fired
       => /\ app'.running = app.running
          /\ \A u \in Tasks \ {TaskOf(obs'.lastOp)} :
               /\ app'.task[u] = app.task[u]
               /\ tk'.gen[u] = tk.gen[u]
               /\ {h \in tk'.timers : h[1] = u} = Pending(World, u)]_vars

\* A firing of update_memory_chart has just failed while the other three
\* tasks have their timers pending, one of them registered by a firing.
C20_Witness ==
  /\ obs.lastOp = "update_memory_chart"
  /\ obs.outcome = "raised"
  /\ app.running
  /\ \A u \in Tasks \ {"memory"} : Pending(World, u) = {<<u, app.task[u]>>}
  /\ \E u \in Tasks \ {"memory"} : app.task[u] > 1

====
